---- MODULE Spec2Model ----
(***************************************************************************)
(* The message router of tg-chatbot (src/src/core.ts) and the Telegram     *)
(* adapter that feeds it (src/index.ts).                                   *)
(*                                                                         *)
(* A handleMessage call is an async function: it runs without interruption *)
(* up to its next `await` (a module's canHandle or handle), so one action  *)
(* of the model is one such synchronous segment.  What a module answers is *)
(* not decided by the router, so every outcome of canHandle and handle is  *)
(* a choice made when the awaited promise settles.                         *)
(***************************************************************************)
EXTENDS Integers, Sequences, FiniteSets, TLC

\* ---------------------------------------------------------------- bounds
MaxModules == 3
MaxCalls == 2
MaxPreload == 21
MaxChats == 2
MaxProbes == 2
MaxLegacyHistory == 12
MaxLogEntries == 3

\* ------------------------------------------------------ program constants
MAX_HISTORY_LENGTH == 20

fallbackMessage == "I'm not sure how to help with that. Try /help for available commands."
errorMessage == "Sorry, I encountered an error processing your message."

\* ----------------------------------------------------------------- inputs
\* Module objects handed to the router: test doubles of BaseModuleInterface.
\* Two of them share priority 10.
ModuleDoubles ==
    { [name |-> "A", priority |-> 10, reply |-> "reply A"],
      [name |-> "B", priority |-> 20, reply |-> "reply B"],
      [name |-> "C", priority |-> 50, reply |-> "reply C"],
      [name |-> "D", priority |-> 10, reply |-> "reply D"] }

Texts == {"hello", "/position"}
CallIds == 1..MaxCalls
Chats == 1..MaxChats
UserIds == {1, 2}

\* What an awaited canHandle / handle promise settles to.  A rejection
\* carries the thrown value: an Error object, or null/undefined (a bare
\* `throw undefined` or `Promise.reject()`).
CanHandleOutcomes == {"true", "false", "throwError", "throwNullish"}
HandleOutcomes == {"ok", "throwError", "throwNullish"}

VARIABLES
    modules,              \* Core.modules: the registry, in iteration order
    loaded,               \* Core.initialize() has run
    contexts,             \* the MessageContext objects, by object identity
    held,                 \* per context: every entry it held or was appended
    conversationHistory,  \* AppState.conversationHistory: chatId -> context
    calls,                \* the handleMessage calls and their adapter handlers
    hookCalls,            \* the initialize()/cleanup() calls made on modules
    cleaning,             \* the Core.cleanup() calls: each one's position in the loop
    users,                \* TradingModule's UserService.users: userId -> UserData
    lastLinked,           \* per user: the address last linked and not unlinked since
    nodeEnv,              \* process.env.NODE_ENV
    globalLogger,         \* enhanced-logger's singleton: created or not, its fields
    logEntries,           \* the entries written, each with the options of its logger
    lastIndex,            \* lastIndex of the RegExp objects where it is not 0
    probes                \* results of canHandle calls made directly on a module

vars == <<modules, loaded, contexts, held, conversationHistory, calls,
          hookCalls, cleaning, users, lastLinked, nodeEnv, globalLogger,
          logEntries, lastIndex, probes>>

\* What the modules and the process hold besides the registry.
moduleVars ==
    <<hookCalls, cleaning, users, lastLinked, nodeEnv, globalLogger, logEntries,
      lastIndex, probes>>

\* ------------------------------------------------------- module registry
\* Core.registerModule: push, nothing else.
registerModule(mods, module) == Append(mods, module)

\* A faulty variant of the sort that is not stable: a module goes in front
\* of the modules of equal priority that were registered before it.
RECURSIVE sortTiesReversed(_)
sortTiesReversed(mods) ==
    IF mods = <<>> THEN <<>>
    ELSE LET rest == sortTiesReversed(SubSeq(mods, 1, Len(mods) - 1))
             m == mods[Len(mods)]
             before == SelectSeq(rest, LAMBDA x : x.priority < m.priority)
             after == SelectSeq(rest, LAMBDA x : x.priority >= m.priority)
         IN before \o <<m>> \o after

\* Array.prototype.sort with (a, b) => a.priority - b.priority: a stable
\* sort, so modules of equal priority keep their relative order.
RECURSIVE sortByPriority(_)
sortByPriority(mods) ==
    IF mods = <<>> THEN <<>>
    ELSE LET rest == sortByPriority(SubSeq(mods, 1, Len(mods) - 1))
             m == mods[Len(mods)]
             before == SelectSeq(rest, LAMBDA x : x.priority <= m.priority)
             after == SelectSeq(rest, LAMBDA x : x.priority > m.priority)
         IN before \o <<m>> \o after

RECURSIVE registerAll(_, _)
registerAll(mods, files) ==
    IF files = <<>> THEN mods
    ELSE registerAll(registerModule(mods, Head(files)), Tail(files))

\* Core.loadModules: every module file found is instantiated and
\* registered in directory order, then the registry is sorted once.
loadModules(mods, files) == sortByPriority(registerAll(mods, files))

\* The directory listings loadModules may meet: distinct module files, in
\* any order, as many as the registry bound leaves room for.
Listings(room) ==
    { fs \in UNION { [1..n -> ModuleDoubles] : n \in 1..room } :
        \A a, b \in DOMAIN fs : a # b => fs[a] # fs[b] }

\* --------------------------------------------------- conversation history
Entry(role, content) == [role |-> role, content |-> content, timestamp |-> "Date"]

\* A faulty variant of the slice: slice(0, n) keeps the first n elements.
sliceFirst(history, n) ==
    IF Len(history) <= n THEN history ELSE SubSeq(history, 1, n)

\* Array.prototype.slice(-n): the last n elements.
sliceLast(history, n) ==
    IF Len(history) <= n THEN history
    ELSE SubSeq(history, Len(history) - n + 1, Len(history))

\* Core.addToHistory: stamp, push, keep the most recent MAX_HISTORY_LENGTH.
addToHistory(history, role, content) ==
    LET pushed == Append(history, Entry(role, content))
    IN IF Len(pushed) > MAX_HISTORY_LENGTH
       THEN sliceLast(pushed, MAX_HISTORY_LENGTH)
       ELSE pushed

\* ------------------------------------------------------ handleMessage
IdleCall ==
    [pc |-> "idle", via |-> "none", ctx |-> 0, chatId |-> 0, text |-> "",
     i |-> 0, last |-> "none", outcome |-> "none", response |-> "",
     sent |-> "none", http |-> 0]

RetiredCall == [IdleCall EXCEPT !.pc = "retired"]

\* The inner catch block: it logs `(error as Error).message`, which
\* dereferences the caught value.  For null/undefined that read throws a
\* TypeError out of the catch block; otherwise the loop continues.
innerCatch(thrown) ==
    IF thrown = "throwNullish" THEN "rethrow" ELSE "continue"

\* The text an error value carries (its message, its stack): that of an
\* Error a module threw, and that of the TypeError raised by reading
\* `.message` of null/undefined.
moduleErrorText == "connect ECONNREFUSED 10.0.0.5:443 at TradingModule.handle"
typeErrorText == "Cannot read properties of undefined (reading 'message')"

\* A faulty variant that answers with the caught error's own text.
outerCatchLeaking(call) ==
    [call EXCEPT !.pc = "returned", !.outcome = "error", !.response = typeErrorText]

\* A faulty variant without the outer try/catch: the TypeError leaves
\* handleMessage.
outerCatchMissing(call) == [call EXCEPT !.pc = "raised"]

\* The outer catch block: the generic error string is returned; history is
\* left as it is.
outerCatch(call) ==
    [call EXCEPT !.pc = "returned", !.outcome = "error", !.response = errorMessage]

\* A faulty variant in which `return response` is missing: the loop goes on.
dispatchedNoReturn(call, response) ==
    [call EXCEPT !.pc = "awaitCanHandle", !.response = response]

\* The successful return of a module's handle.
dispatched(call, response) ==
    [call EXCEPT !.pc = "returned", !.outcome = "dispatched", !.response = response]

\* The for-of loop over this.modules, about to look at position i: the next
\* module's canHandle is called and awaited, or the loop is over and the
\* fallback is appended and returned.
Scan(cs, k, call, i, ctxs, hld) ==
    IF i <= Len(modules)
    THEN /\ calls' = [cs EXCEPT ![k] = [call EXCEPT !.pc = "awaitCanHandle", !.i = i]]
         /\ contexts' = ctxs
         /\ held' = hld
    ELSE /\ calls' = [cs EXCEPT ![k] =
                [call EXCEPT !.pc = "returned", !.i = i, !.outcome = "fallback",
                             !.response = fallbackMessage]]
         /\ contexts' = [ctxs EXCEPT ![call.ctx].history =
                            addToHistory(@, "assistant", fallbackMessage)]
         /\ held' = [hld EXCEPT ![call.ctx] = Append(@, Entry("assistant", fallbackMessage))]

\* handleMessage up to its first await: the user entry is appended, then the
\* loop starts.
Enter(cs, k, via, chatId, c, text, ctxs, hld) ==
    Scan(cs, k,
         [IdleCall EXCEPT !.via = via, !.ctx = c, !.chatId = chatId, !.text = text],
         1,
         [ctxs EXCEPT ![c].history = addToHistory(@, "user", text)],
         [hld EXCEPT ![c] = Append(@, Entry("user", text))])

\* A fault of module i reaches the inner catch.
Catch(k, call, thrown) ==
    IF innerCatch(thrown) = "continue"
    THEN Scan(calls, k, call, call.i + 1, contexts, held)
    ELSE /\ calls' = [calls EXCEPT ![k] = outerCatch(call)]
         /\ UNCHANGED <<contexts, held>>

\* handleMessage resumes with what the awaited canHandle of module i settled
\* to.
CanHandleReturns(k, outcome) ==
    /\ calls[k].pc = "awaitCanHandle"
    /\ LET call == [calls[k] EXCEPT !.last = outcome]
       IN CASE outcome = "true" ->
                 /\ calls' = [calls EXCEPT ![k] = [call EXCEPT !.pc = "awaitHandle"]]
                 /\ UNCHANGED <<contexts, held>>
            [] outcome = "false" -> Scan(calls, k, call, call.i + 1, contexts, held)
            [] OTHER -> Catch(k, call, outcome)
    /\ UNCHANGED <<modules, loaded, conversationHistory>>
    /\ UNCHANGED <<hookCalls, cleaning, users, lastLinked, nodeEnv, globalLogger,
                   logEntries, probes>>

\* The awaited canHandle of module i settles: a test double, which holds no
\* RegExp.
CanHandleSettles(k, outcome) ==
    /\ CanHandleReturns(k, outcome)
    /\ UNCHANGED lastIndex

\* handleMessage resumes with what the awaited handle of module i settled
\* to: on success the response, and context.history as the module left it.
HandleReturns(k, outcome, response, history) ==
    /\ calls[k].pc = "awaitHandle"
    /\ LET call == [calls[k] EXCEPT !.last = outcome]
       IN IF outcome = "ok"
          THEN /\ calls' = [calls EXCEPT ![k] = dispatched(call, response)]
               /\ contexts' = [contexts EXCEPT ![call.ctx].history =
                                  addToHistory(history, "assistant", response)]
               /\ held' = [held EXCEPT ![call.ctx] = Append(@, Entry("assistant", response))]
          ELSE Catch(k, call, outcome)
    /\ UNCHANGED <<modules, loaded, conversationHistory, moduleVars>>

\* The awaited handle of module i settles: a test double, which answers with
\* its reply and does not touch the context.
HandleSettles(k, outcome) ==
    /\ calls[k].pc = "awaitHandle"
    /\ HandleReturns(k, outcome, modules[calls[k].i].reply,
                     contexts[calls[k].ctx].history)

\* ------------------------------------------------------------ callers
NoCallStarted == \A k \in CallIds : calls[k].pc = "idle"
NextCallId(k) == calls[k].pc = "idle" /\ \A j \in 1..(k - 1) : calls[j].pc # "idle"

\* core.registerModule(module), callable at any time, also while a call is
\* iterating the registry (the array iterator sees a module pushed behind
\* its position).  Each module object is handed in once.
RegisterModule(module) ==
    /\ Len(modules) < MaxModules
    /\ \A j \in DOMAIN modules : modules[j] # module
    /\ modules' = registerModule(modules, module)
    /\ UNCHANGED <<loaded, contexts, held, conversationHistory, calls, moduleVars>>

\* core.initialize(): ChatbotApp.start and the tests await it once, before
\* the first message is served.
Initialize(files) ==
    /\ ~loaded
    /\ NoCallStarted
    /\ \A j \in DOMAIN modules, f \in DOMAIN files : modules[j] # files[f]
    /\ modules' = loadModules(modules, files)
    /\ loaded' = TRUE
    /\ UNCHANGED <<contexts, held, conversationHistory, calls, moduleVars>>

\* `await core.handleMessage(text, testContext)`: a caller that waits for
\* each answer before it sends the next message.
SequentialCall(k, text) ==
    /\ NextCallId(k)
    /\ \A j \in CallIds : calls[j].pc \in {"idle", "returned", "retired"}
    /\ Enter([j \in CallIds |-> IF calls[j].pc = "returned" THEN RetiredCall ELSE calls[j]],
             k, "direct", contexts[1].chatId, 1, text, contexts, held)
    /\ UNCHANGED <<modules, loaded, conversationHistory, moduleVars>>

\* Promise.all over handleMessage(text, testContext) calls: the caller starts
\* the next call without waiting for the earlier ones.
ConcurrentCall(k, text) ==
    /\ NextCallId(k)
    /\ Enter(calls, k, "direct", contexts[1].chatId, 1, text, contexts, held)
    /\ UNCHANGED <<modules, loaded, conversationHistory, moduleVars>>

\* ------------------------------------------------------ Telegram adapter
\* A faulty variant that skips the lookup: every update stores a fresh
\* context.
alwaysCreate(store, ctxs, chatId, userId) ==
    [store |-> (chatId :> (Len(ctxs) + 1)) @@ [c \in DOMAIN store \ {chatId} |-> store[c]],
     contexts |-> Append(ctxs, [chatId |-> chatId, userId |-> userId, history |-> <<>>]),
     ctx |-> Len(ctxs) + 1]

\* A faulty variant with one context for the whole process: the chat id is
\* not the key.
sharedContext(store, ctxs, chatId, userId) ==
    IF ctxs # <<>>
    THEN [store |-> (chatId :> 1) @@ store, contexts |-> ctxs, ctx |-> 1]
    ELSE [store |-> (chatId :> 1) @@ store,
          contexts |-> Append(ctxs, [chatId |-> chatId, userId |-> userId, history |-> <<>>]),
          ctx |-> 1]

\* "Get or create conversation context", the same statements in the polling
\* handler and in handleWebhook: look the chat id up, and store a fresh
\* context with empty history when there is none.
getOrCreate(store, ctxs, chatId, userId) ==
    IF chatId \in DOMAIN store
    THEN [store |-> store, contexts |-> ctxs, ctx |-> store[chatId]]
    ELSE [store |-> (chatId :> (Len(ctxs) + 1)) @@ store,
          contexts |-> Append(ctxs, [chatId |-> chatId, userId |-> userId, history |-> <<>>]),
          ctx |-> Len(ctxs) + 1]

\* A handler that is over: its locals are gone.
Done(via, sent, http) ==
    [IdleCall EXCEPT !.pc = "done", !.via = via, !.sent = sent, !.http = http]

\* The update reaches handleMessage: context lookup, then the call.
Route(k, via, chatId, userId, text) ==
    LET got == getOrCreate(conversationHistory, contexts, chatId, userId)
        hld == IF Len(got.contexts) > Len(contexts) THEN Append(held, <<>>) ELSE held
    IN /\ conversationHistory' = got.store
       /\ Enter(calls, k, via, chatId, got.ctx, text, got.contexts, hld)

\* bot.on('text', ...): one text update delivered by Telegraf.
PollingText(k, chatId, userId, text) ==
    /\ NextCallId(k)
    /\ IF userId = 0 \/ text = ""
       THEN /\ calls' = [calls EXCEPT ![k] = Done("polling", "none", 0)]
            /\ UNCHANGED <<contexts, held, conversationHistory>>
       ELSE Route(k, "polling", chatId, userId, text)
    /\ UNCHANGED <<modules, loaded, moduleVars>>

\* `await ctx.reply(response)` settles; a failure reaches the handler's
\* catch, which replies with the error text.
PollingReplySettles(k, ok) ==
    /\ calls[k].via = "polling"
    /\ calls[k].pc = "returned"
    /\ calls' = [calls EXCEPT ![k] =
            IF ok THEN Done("polling", "response", 0)
            ELSE [IdleCall EXCEPT !.pc = "replyError", !.via = "polling"]]
    /\ UNCHANGED <<modules, loaded, contexts, held, conversationHistory, moduleVars>>

\* The catch block's `await ctx.reply(...)` settles; a failure here leaves
\* the handler rejected, for bot.catch to log.
PollingErrorReplySettles(k, ok) ==
    /\ calls[k].pc = "replyError"
    /\ calls' = [calls EXCEPT ![k] =
            Done("polling", IF ok THEN "error" ELSE "failed", 0)]
    /\ UNCHANGED <<modules, loaded, contexts, held, conversationHistory, moduleVars>>

\* POST /webhook: handleWebhook with the request body as the update.  Express
\* runs the handler of each request as it arrives, whatever earlier handlers
\* are still awaiting.
HandleWebhook(k, chatId, userId, text) ==
    /\ NextCallId(k)
    /\ IF userId = 0 \/ text = ""
       THEN /\ calls' = [calls EXCEPT ![k] = Done("webhook", "none", 200)]
            /\ UNCHANGED <<contexts, held, conversationHistory>>
       ELSE Route(k, "webhook", chatId, userId, text)
    /\ UNCHANGED <<modules, loaded, moduleVars>>

\* A faulty catch block that logs and answers nothing: the request is left
\* without a response.
webhookCatchSilent(sent) == Done("webhook", sent, 0)

\* The catch block of handleWebhook: `res.status(200).send('OK')`.
webhookCatch(sent) == Done("webhook", sent, 200)

\* `await bot.telegram.sendMessage(chatId, response)` settles; both the
\* normal end and the catch answer the request with 200.
WebhookSendSettles(k, ok) ==
    /\ calls[k].via = "webhook"
    /\ calls[k].pc = "returned"
    /\ calls' = [calls EXCEPT ![k] =
            IF ok THEN Done("webhook", "response", 200) ELSE webhookCatch("failed")]
    /\ UNCHANGED <<modules, loaded, contexts, held, conversationHistory, moduleVars>>

ContextOf(chatId, userId, history) ==
    [chatId |-> chatId, userId |-> userId, history |-> history]

NoCalls == [k \in CallIds |-> IdleCall]

\* The core.cleanup() calls a process may see: one from each shutdown
\* handler that start() installs.
CleanupCalls == {1, 2}

NotCleaning == [pc |-> "idle", i |-> 0, logged |-> <<>>]

NoUserContext == [userId |-> "undefined", username |-> "undefined"]
NoLogger == [created |-> FALSE, correlationId |-> "undefined", userContext |-> NoUserContext]

\* A fresh process: no hook called, no cleanup under way, no wallet linked,
\* every RegExp at lastIndex 0, no direct canHandle call made.
FreshProcess(env) ==
    /\ hookCalls = <<>>
    /\ cleaning = [c \in CleanupCalls |-> NotCleaning]
    /\ users = <<>>
    /\ lastLinked = [u \in UserIds |-> "null"]
    /\ nodeEnv = env
    /\ globalLogger = NoLogger
    /\ logEntries = <<>>
    /\ lastIndex = <<>>
    /\ probes = <<>>

Init ==
    /\ modules = <<>>
    /\ loaded = FALSE
    /\ contexts = << ContextOf(1, 1, <<>>) >>
    /\ held = << <<>> >>
    /\ conversationHistory = <<>>
    /\ calls = NoCalls
    /\ FreshProcess("test")

Next ==
    \/ \E module \in ModuleDoubles : RegisterModule(module)
    \/ \E files \in Listings(MaxModules - Len(modules)) : Initialize(files)
    \/ \E k \in CallIds, text \in Texts : SequentialCall(k, text)
    \/ \E k \in CallIds, outcome \in CanHandleOutcomes : CanHandleSettles(k, outcome)
    \/ \E k \in CallIds, outcome \in HandleOutcomes : HandleSettles(k, outcome)

Spec == Init /\ [][Next]_vars

\* --- the history of one context, under calls that overlap
\* A context handed in with entries already in it, as the tests build one:
\* {role, content} pairs without a timestamp.
Preload(n) ==
    [j \in 1..n |-> [role |-> IF j % 2 = 1 THEN "user" ELSE "assistant",
                     content |-> ToString(j), timestamp |-> "undefined"]]

PreloadLengths == {0} \cup ((MaxPreload - 2)..MaxPreload)

InitHistory ==
    /\ modules = loadModules(<<>>, << CHOOSE m \in ModuleDoubles : m.name = "A" >>)
    /\ loaded = TRUE
    /\ \E n \in PreloadLengths :
          /\ contexts = << ContextOf(1, 1, Preload(n)) >>
          /\ held = << Preload(n) >>
    /\ conversationHistory = <<>>
    /\ calls = NoCalls
    /\ FreshProcess("test")

NextHistory ==
    \/ \E k \in CallIds, text \in Texts : ConcurrentCall(k, text)
    \/ \E k \in CallIds, outcome \in CanHandleOutcomes : CanHandleSettles(k, outcome)
    \/ \E k \in CallIds, outcome \in HandleOutcomes : HandleSettles(k, outcome)

SpecHistory == InitHistory /\ [][NextHistory]_vars

\* --- the adapter: updates of several chats, over polling and the webhook
UpdateTexts == {"", "hello"}
Senders(chatId) == {0, chatId}

InitApp ==
    /\ modules = loadModules(<<>>, << CHOOSE m \in ModuleDoubles : m.name = "A" >>)
    /\ loaded = TRUE
    /\ contexts = <<>>
    /\ held = <<>>
    /\ conversationHistory = <<>>
    /\ calls = NoCalls
    /\ FreshProcess("test")

NextApp ==
    \/ \E k \in CallIds, chatId \in Chats, text \in UpdateTexts :
          \E userId \in Senders(chatId) : HandleWebhook(k, chatId, userId, text)
    \/ \E k \in CallIds, chatId \in Chats, text \in UpdateTexts :
          \E userId \in Senders(chatId) : PollingText(k, chatId, userId, text)
    \/ \E k \in CallIds, outcome \in CanHandleOutcomes : CanHandleSettles(k, outcome)
    \/ \E k \in CallIds, outcome \in HandleOutcomes : HandleSettles(k, outcome)
    \/ \E k \in CallIds, ok \in BOOLEAN : PollingReplySettles(k, ok)
    \/ \E k \in CallIds, ok \in BOOLEAN : PollingErrorReplySettles(k, ok)
    \/ \E k \in CallIds, ok \in BOOLEAN : WebhookSendSettles(k, ok)

SpecApp == InitApp /\ [][NextApp]_vars

\* --- Core.cleanup
\* Whether a module object has a cleanup method: of the doubles, all but B.
definesCleanup(module) == module.name # "B"

\* What an awaited module.cleanup() settles to.
CleanupOutcomes == {"ok", "throwError", "throwNullish"}

\* A faulty variant of the catch block that reads a property of the caught
\* value, as the inner catch of handleMessage does.
cleanupCatchDereferences(thrown) ==
    IF thrown = "throwNullish" THEN "rethrow" ELSE "continue"

\* The catch block of the cleanup loop: the caught value is handed to
\* logger.error as it is, and the loop goes on.
cleanupCatch(thrown) == "continue"

\* The for-of loop of cleanup, about to look at position i: modules without
\* a cleanup method are passed over, the next one that has it is called and
\* awaited; when the loop is over the registry is replaced by an empty one.
CleanupScan(c, i, logged) ==
    LET ahead == { j \in i..Len(modules) : definesCleanup(modules[j]) }
    IN IF ahead # {}
       THEN LET j == CHOOSE a \in ahead : \A b \in ahead : a <= b
            IN /\ cleaning' = [cleaning EXCEPT ![c] =
                                  [pc |-> "awaitCleanup", i |-> j, logged |-> logged]]
               /\ hookCalls' = Append(hookCalls,
                                      [hook |-> "cleanup", module |-> modules[j].name])
               /\ UNCHANGED modules
       ELSE /\ cleaning' = [cleaning EXCEPT ![c] =
                               [pc |-> "done", i |-> 0, logged |-> logged]]
            /\ modules' = <<>>
            /\ UNCHANGED hookCalls

\* core.cleanup() is called.
CoreCleanup(c) ==
    /\ cleaning[c].pc = "idle"
    /\ CleanupScan(c, 1, <<>>)
    /\ UNCHANGED <<loaded, contexts, held, conversationHistory, calls>>
    /\ UNCHANGED <<users, lastLinked, nodeEnv, globalLogger, logEntries, lastIndex, probes>>

\* The awaited cleanup() of module i settles.
CleanupSettles(c, outcome) ==
    /\ cleaning[c].pc = "awaitCleanup"
    /\ IF outcome = "ok"
       THEN CleanupScan(c, cleaning[c].i + 1, cleaning[c].logged)
       ELSE IF cleanupCatch(outcome) = "continue"
       THEN CleanupScan(c, cleaning[c].i + 1,
                        Append(cleaning[c].logged, modules[cleaning[c].i].name))
       ELSE /\ cleaning' = [cleaning EXCEPT ![c].pc = "raised"]
            /\ UNCHANGED <<modules, hookCalls>>
    /\ UNCHANGED <<loaded, contexts, held, conversationHistory, calls>>
    /\ UNCHANGED <<users, lastLinked, nodeEnv, globalLogger, logEntries, lastIndex, probes>>

\* core.initialize(), awaited before the process can be told to shut down.
InitializeBeforeCleanup(files) ==
    /\ \A c \in CleanupCalls : cleaning[c].pc = "idle"
    /\ Initialize(files)

NextCleanup ==
    \/ \E module \in ModuleDoubles : RegisterModule(module)
    \/ \E files \in Listings(MaxModules - Len(modules)) : InitializeBeforeCleanup(files)
    \/ CoreCleanup(1)
    \/ \E outcome \in CleanupOutcomes : CleanupSettles(1, outcome)

SpecCleanup == Init /\ [][NextCleanup]_vars

\* --- process shutdown
\* shutdown() has gone past `await this.state.core.cleanup()`: process.exit
\* ends the process, whatever else is pending.
Exited == \E c \in CleanupCalls : cleaning[c].pc \in {"done", "raised"}

\* A signal arrives and its handler runs shutdown(), which calls
\* core.cleanup().  start() installs the two handlers once core.initialize()
\* is over; handler 2 is the one of the signal that arrives second.
Shutdown(c) ==
    /\ loaded
    /\ ~Exited
    /\ c = 2 => cleaning[1].pc # "idle"
    /\ CoreCleanup(c)

\* The awaited module.cleanup() of a shutdown handler's core.cleanup()
\* settles.
ShutdownCleanupSettles(c, outcome) ==
    /\ ~Exited
    /\ CleanupSettles(c, outcome)

\* Modules registered before start() loads the rest.
RegisterBeforeStart(module) ==
    /\ ~loaded
    /\ RegisterModule(module)

NextShutdown ==
    \/ \E module \in ModuleDoubles : RegisterBeforeStart(module)
    \/ \E files \in Listings(MaxModules - Len(modules)) : InitializeBeforeCleanup(files)
    \/ \E c \in CleanupCalls : Shutdown(c)
    \/ \E c \in CleanupCalls, outcome \in CleanupOutcomes :
          ShutdownCleanupSettles(c, outcome)

SpecShutdown == Init /\ [][NextShutdown]_vars

\* --- registerModule on whatever it is handed
\* Module objects a caller may hand to registerModule: two well-formed
\* ones, one that repeats the name of the first, and one whose priority is
\* a string.
HandedModules ==
    << [name |-> "A", priority |-> 10, reply |-> "reply A"],
       [name |-> "B", priority |-> 20, reply |-> "reply B"],
       [name |-> "A", priority |-> 50, reply |-> "reply C"],
       [name |-> "E", priority |-> "high", reply |-> "reply D"] >>

\* core.registerModule(module) with any module object, a second time too.
RegisterAnyModule(module) ==
    /\ Len(modules) < MaxModules
    /\ modules' = registerModule(modules, module)
    /\ UNCHANGED <<loaded, contexts, held, conversationHistory, calls, moduleVars>>

NextRegister ==
    \/ \E j \in DOMAIN HandedModules : RegisterAnyModule(HandedModules[j])
    \/ \E k \in CallIds, text \in Texts : SequentialCall(k, text)
    \/ \E k \in CallIds, outcome \in CanHandleOutcomes : CanHandleSettles(k, outcome)
    \/ \E k \in CallIds, outcome \in HandleOutcomes : HandleSettles(k, outcome)

SpecRegister == Init /\ [][NextRegister]_vars

\* ------------------------------------------------------ regular expressions
\* A text is known by its string; Chars gives the characters it is made of.
ShippedTexts ==
    {"", "hello", "/help", "/position", "/POS", "show eth position",
     "trading commands", "/linkwallet 0xabc"}

Chars(text) ==
    CASE text = "" -> <<>>
      [] text = "hello" -> <<"h", "e", "l", "l", "o">>
      [] text = "/help" -> <<"/", "h", "e", "l", "p">>
      [] text = "/position" -> <<"/", "p", "o", "s", "i", "t", "i", "o", "n">>
      [] text = "/POS" -> <<"/", "P", "O", "S">>
      [] text = "show eth position" -> <<"s", "h", "o", "w", " ", "e", "t", "h", " ", "p", "o", "s", "i", "t", "i", "o", "n">>
      [] text = "trading commands" -> <<"t", "r", "a", "d", "i", "n", "g", " ", "c", "o", "m", "m", "a", "n", "d", "s">>
      [] text = "/linkwallet 0xabc" -> <<"/", "l", "i", "n", "k", "w", "a", "l", "l", "e", "t", " ", "0", "x", "a", "b", "c">>

Upper == <<"A", "B", "C", "D", "E", "F", "G", "H", "I", "J", "K", "L", "M",
           "N", "O", "P", "Q", "R", "S", "T", "U", "V", "W", "X", "Y", "Z">>
Lower == <<"a", "b", "c", "d", "e", "f", "g", "h", "i", "j", "k", "l", "m",
           "n", "o", "p", "q", "r", "s", "t", "u", "v", "w", "x", "y", "z">>
Digits == {"0", "1", "2", "3", "4", "5", "6", "7", "8", "9"}

\* \w and \s.
WordChars == {Upper[j] : j \in DOMAIN Upper} \cup {Lower[j] : j \in DOMAIN Lower}
                \cup Digits \cup {"_"}
SpaceChars == {" ", "\t", "\n", "\r"}

toLower(c) ==
    IF \E j \in DOMAIN Upper : Upper[j] = c
    THEN Lower[CHOOSE j \in DOMAIN Upper : Upper[j] = c]
    ELSE c

\* The characters the matcher compares: folded to one case under the i flag.
folded(re, chars) ==
    IF "i" \in re.flags THEN [j \in DOMAIN chars |-> toLower(chars[j])] ELSE chars

litAt(s, p, chars) ==
    /\ p + Len(chars) - 1 <= Len(s)
    /\ \A j \in 1..Len(chars) : s[p + j - 1] = chars[j]

\* The lengths n >= 1 such that the n characters from position p on are all
\* in the class: what a `+` quantifier may consume.
runs(s, p, class) ==
    { n \in 1..(Len(s) - p + 1) : \A j \in 0..(n - 1) : s[p + j] \in class }

\* The positions at which a match of the tokens that starts at position p
\* (1-based) can end; empty when there is none.
RECURSIVE ends(_, _, _)
ends(s, p, toks) ==
    IF toks = <<>> THEN {p}
    ELSE LET t == Head(toks)
             rest == Tail(toks)
         IN CASE t.kind = "lit" ->
                   IF litAt(s, p, t.chars) THEN ends(s, p + Len(t.chars), rest) ELSE {}
              [] t.kind = "s+" ->
                   UNION { ends(s, p + n, rest) : n \in runs(s, p, SpaceChars) }
              [] t.kind = "w+" ->
                   UNION { ends(s, p + n, rest) : n \in runs(s, p, WordChars) }
              [] t.kind = "alt" ->
                   UNION { IF litAt(s, p, a) THEN ends(s, p + Len(a), rest) ELSE {} :
                           a \in t.of }
              [] t.kind = "$" ->
                   IF p = Len(s) + 1 THEN ends(s, p, rest) ELSE {}

lastIndexOf(li, id) == IF id \in DOMAIN li THEN li[id] ELSE 0

\* RegExp.prototype.exec as test() uses it.  The search starts at index 0,
\* or at lastIndex when the expression is global; a global expression
\* leaves the end of the match in lastIndex, or 0 when nothing matched.
exec(re, li, chars, global) ==
    LET s == folded(re, chars)
        from == IF global THEN lastIndexOf(li, re.id) ELSE 0
        starts == { p \in (from + 1)..(Len(s) + 1) :
                      /\ re.anchored => p = 1
                      /\ ends(s, p, re.toks) # {} }
        found == starts # {}
        first == CHOOSE p \in starts : \A q \in starts : p <= q
        stop == CHOOSE e \in ends(s, first, re.toks) :
                    \A f \in ends(s, first, re.toks) : f <= e
        others == [r \in DOMAIN li \ {re.id} |-> li[r]]
    IN [found |-> found,
        lastIndex |-> IF ~global THEN li
                      ELSE IF found /\ stop > 1 THEN (re.id :> (stop - 1)) @@ others
                      ELSE others]

\* A faulty variant: every expression behaves as if it carried the g flag.
regexTestGlobal(re, li, chars) == exec(re, li, chars, TRUE)

\* RegExp.prototype.test.
regexTest(re, li, chars) == exec(re, li, chars, "g" \in re.flags)

\* `for (const pattern of res) if (pattern.test(text)) return true`, and
\* Array.prototype.some over test: the expressions are tried in order up to
\* the first that matches.
RECURSIVE testAny(_, _, _)
testAny(res, li, chars) ==
    IF res = <<>> THEN [found |-> FALSE, lastIndex |-> li]
    ELSE LET r == regexTest(Head(res), li, chars)
         IN IF r.found THEN r ELSE testAny(Tail(res), r.lastIndex, chars)

\* ------------------------------------------------------- Trading module
Coins ==
    {<<"b", "t", "c">>,
     <<"e", "t", "h">>,
     <<"s", "o", "l">>,
     <<"m", "a", "t", "i", "c">>,
     <<"a", "r", "b">>,
     <<"o", "p">>,
     <<"a", "v", "a", "x">>,
     <<"b", "n", "b">>,
     <<"a", "d", "a">>,
     <<"d", "o", "t">>}

\* TradingModule.patterns: the expressions of each command type.
positionPatterns ==
    << [id |-> "position[0]", flags |-> {"i"}, anchored |-> TRUE,
        toks |-> <<[kind |-> "lit", chars |-> <<"/", "p", "o", "s", "i", "t", "i", "o", "n">>],
                  [kind |-> "$"]>>],
       [id |-> "position[1]", flags |-> {"i"}, anchored |-> TRUE,
        toks |-> <<[kind |-> "lit", chars |-> <<"/", "p", "o", "s">>],
                  [kind |-> "$"]>>],
       [id |-> "position[2]", flags |-> {"i"}, anchored |-> TRUE,
        toks |-> <<[kind |-> "lit", chars |-> <<"/", "p", "o", "r", "t", "f", "o", "l", "i", "o">>],
                  [kind |-> "$"]>>],
       [id |-> "position[3]", flags |-> {"i"}, anchored |-> FALSE,
        toks |-> <<[kind |-> "lit", chars |-> <<"m", "y", " ", "p", "o", "s", "i", "t", "i", "o", "n">>]>>],
       [id |-> "position[4]", flags |-> {"i"}, anchored |-> FALSE,
        toks |-> <<[kind |-> "lit", chars |-> <<"c", "h", "e", "c", "k", " ", "p", "o", "s", "i", "t", "i", "o", "n">>]>>],
       [id |-> "position[5]", flags |-> {"i"}, anchored |-> FALSE,
        toks |-> <<[kind |-> "lit", chars |-> <<"s", "h", "o", "w", " ", "p", "o", "s", "i", "t", "i", "o", "n">>]>>],
       [id |-> "position[6]", flags |-> {"i"}, anchored |-> FALSE,
        toks |-> <<[kind |-> "lit", chars |-> <<"w", "h", "a", "t", "'", "s", " ", "m", "y", " ", "p", "o", "s", "i", "t", "i", "o", "n">>]>>],
       [id |-> "position[7]", flags |-> {"i"}, anchored |-> FALSE,
        toks |-> <<[kind |-> "lit", chars |-> <<"w", "h", "a", "t", " ", "a", "r", "e", " ", "m", "y", " ", "p", "o", "s", "i", "t", "i", "o", "n", "s">>]>>],
       [id |-> "position[8]", flags |-> {"i"}, anchored |-> FALSE,
        toks |-> <<[kind |-> "lit", chars |-> <<"o", "p", "e", "n", " ", "p", "o", "s", "i", "t", "i", "o", "n", "s">>]>>],
       [id |-> "position[9]", flags |-> {"i"}, anchored |-> FALSE,
        toks |-> <<[kind |-> "lit", chars |-> <<"c", "u", "r", "r", "e", "n", "t", " ", "p", "o", "s", "i", "t", "i", "o", "n", "s">>]>>] >>

positionDetailPatterns ==
    << [id |-> "positionDetail[0]", flags |-> {"i"}, anchored |-> TRUE,
        toks |-> <<[kind |-> "lit", chars |-> <<"/", "p", "o", "s", "i", "t", "i", "o", "n", "_", "d", "e", "t", "a", "i", "l">>],
                  [kind |-> "s+"],
                  [kind |-> "w+"]>>],
       [id |-> "positionDetail[1]", flags |-> {"i"}, anchored |-> FALSE,
        toks |-> <<[kind |-> "lit", chars |-> <<"p", "o", "s", "i", "t", "i", "o", "n">>],
                  [kind |-> "s+"],
                  [kind |-> "alt", of |-> Coins]>>],
       [id |-> "positionDetail[2]", flags |-> {"i"}, anchored |-> FALSE,
        toks |-> <<[kind |-> "lit", chars |-> <<"s", "h", "o", "w">>],
                  [kind |-> "s+"],
                  [kind |-> "alt", of |-> Coins],
                  [kind |-> "s+"],
                  [kind |-> "lit", chars |-> <<"p", "o", "s", "i", "t", "i", "o", "n">>]>>] >>

tradingHelpPatterns ==
    << [id |-> "help[0]", flags |-> {"i"}, anchored |-> TRUE,
        toks |-> <<[kind |-> "lit", chars |-> <<"/", "t", "r", "a", "d", "i", "n", "g", "_", "h", "e", "l", "p">>]>>],
       [id |-> "help[1]", flags |-> {"i"}, anchored |-> TRUE,
        toks |-> <<[kind |-> "lit", chars |-> <<"/", "t", "r", "a", "d", "i", "n", "g", "-", "h", "e", "l", "p">>]>>],
       [id |-> "help[2]", flags |-> {"i"}, anchored |-> TRUE,
        toks |-> <<[kind |-> "lit", chars |-> <<"/", "t", "r", "a", "d", "i", "n", "g", "h", "e", "l", "p">>]>>],
       [id |-> "help[3]", flags |-> {"i"}, anchored |-> FALSE,
        toks |-> <<[kind |-> "lit", chars |-> <<"t", "r", "a", "d", "i", "n", "g", " ", "c", "o", "m", "m", "a", "n", "d", "s">>]>>],
       [id |-> "help[4]", flags |-> {"i"}, anchored |-> FALSE,
        toks |-> <<[kind |-> "lit", chars |-> <<"h", "o", "w", " ", "t", "o", " ", "c", "h", "e", "c", "k", " ", "p", "o", "s", "i", "t", "i", "o", "n">>]>>] >>

\* UserService.TEST_WALLET, and the strings PositionCommand and
\* TradingModule answer with.
TEST_WALLET == "0x0ed637de4b9ccebe6d69991661a2d14f07f569d0"
noWalletMessage == "No wallet configured. Unable to retrieve wallet information."
noPositionsMessage == "No Open Positions. No positions found on Hyperliquid."
positionsMessage == "Your Positions"
positionsFailedMessage == "Failed to fetch positions. Please try again later."
noWalletDetailMessage == "Unable to retrieve wallet information"
noPositionForCoinMessage == "No open position found for COIN"
positionDetailsMessage == "COIN Position Details"
detailsFailedMessage == "Failed to fetch position details. Please try again later."
notRecognizedMessage == "Trading command not recognized. Use /trading-help for available commands."
tradingHelpMessage == "Trading Commands"

\* What the services behind a module's handle come back with: data, an
\* empty result, a failure, or a failure that mentions the API key.
External == {"data", "empty", "error", "keyError"}

\* --- UserService: the users Map, userId -> UserData
\* UserData is {userId, walletAddress, preferences, createdAt, updatedAt};
\* the userId field repeats the key.  A missing walletAddress or preference
\* is "undefined"; dates are clock readings.
Wallets == {"0xtest123456789", "0xnewwallet999"}
Clock == {1, 2}
PrefKeys == {"theme", "notifications"}
NoPreferences == [key \in PrefKeys |-> "undefined"]
PreferenceUpdates ==
    [theme : {"undefined", "dark", "light"}, notifications : {"undefined", "on"}]

\* Map.prototype.set and Map.prototype.delete.
mapSet(map, key, value) ==
    [u \in DOMAIN map \cup {key} |-> IF u = key THEN value ELSE map[u]]
mapDelete(map, key) == [u \in DOMAIN map \ {key} |-> map[u]]

\* { ...old, ...new }: the keys of new win.
spread(old, new) ==
    [key \in PrefKeys |-> IF new[key] # "undefined" THEN new[key] ELSE old[key]]

\* A faulty linkUserWallet that leaves an address already linked in place.
linkKeepsExisting(usrs, userId, walletAddress, now) ==
    IF userId \in DOMAIN usrs /\ usrs[userId].walletAddress # "undefined"
    THEN usrs
    ELSE mapSet(usrs, userId,
                [walletAddress |-> walletAddress, preferences |-> NoPreferences,
                 createdAt |-> now, updatedAt |-> now])

\* UserService.linkUserWallet.
linkUserWallet(usrs, userId, walletAddress, now) ==
    LET existing == userId \in DOMAIN usrs
        userData ==
            [walletAddress |-> walletAddress,
             preferences |-> IF existing THEN usrs[userId].preferences ELSE NoPreferences,
             createdAt |-> IF existing THEN usrs[userId].createdAt ELSE now,
             updatedAt |-> now]
    IN mapSet(usrs, userId, userData)

\* UserService.getUserWallet.
getUserWallet(usrs, env, userId) ==
    IF env = "development" THEN TEST_WALLET
    ELSE IF /\ userId \in DOMAIN usrs
            /\ usrs[userId].walletAddress \notin {"undefined", ""}
         THEN usrs[userId].walletAddress
    ELSE "null"

\* UserService.hasLinkedWallet.
hasLinkedWallet(usrs, env, userId) ==
    \/ env = "development"
    \/ /\ userId \in DOMAIN usrs
       /\ usrs[userId].walletAddress \notin {"undefined", ""}

\* UserService.unlinkUserWallet.
unlinkUserWallet(usrs, userId, now) ==
    IF userId \in DOMAIN usrs
    THEN mapSet(usrs, userId,
                [usrs[userId] EXCEPT !.walletAddress = "undefined", !.updatedAt = now])
    ELSE usrs

\* A faulty updateUserPreferences that stores the new keys alone.
updateReplacesPreferences(usrs, userId, preferences, now) ==
    mapSet(usrs, userId,
           [walletAddress |-> IF userId \in DOMAIN usrs
                              THEN usrs[userId].walletAddress ELSE "undefined",
            preferences |-> preferences,
            createdAt |-> IF userId \in DOMAIN usrs THEN usrs[userId].createdAt ELSE now,
            updatedAt |-> now])

\* UserService.updateUserPreferences.
updateUserPreferences(usrs, userId, preferences, now) ==
    LET existing == userId \in DOMAIN usrs
        userData ==
            [walletAddress |-> IF existing THEN usrs[userId].walletAddress ELSE "undefined",
             preferences |-> spread(IF existing THEN usrs[userId].preferences
                                    ELSE NoPreferences, preferences),
             createdAt |-> IF existing THEN usrs[userId].createdAt ELSE now,
             updatedAt |-> now]
    IN mapSet(usrs, userId, userData)

\* UserService.deleteUser: the Map after it.
deleteUser(usrs, userId) == mapDelete(usrs, userId)

\* PositionCommand.execute: what it passes to ctx.reply.
execute(usrs, env, userId, ext) ==
    LET walletAddress == getUserWallet(usrs, env, userId)
    IN IF walletAddress = "null" THEN noWalletMessage
       ELSE CASE ext = "data" -> positionsMessage
              [] ext = "empty" -> noPositionsMessage
              [] OTHER -> positionsFailedMessage

\* PositionCommand.executeDetailed: what it passes to ctx.reply.
executeDetailed(usrs, env, userId, ext) ==
    LET walletAddress == getUserWallet(usrs, env, userId)
    IN IF walletAddress = "null" THEN noWalletDetailMessage
       ELSE CASE ext = "data" -> positionDetailsMessage
              [] ext = "empty" -> noPositionForCoinMessage
              [] OTHER -> detailsFailedMessage

\* The modules of src/modules, as their constructors name and rank them.
TradingModule == [name |-> "Trading", priority |-> 10]
HelpModule == [name |-> "Help", priority |-> 20]
AIModule == [name |-> "AI", priority |-> 50]
ShippedModules == {TradingModule, HelpModule, AIModule}

\* A faulty canHandle that accepts every text that begins with a slash.
tradingCanHandleAnySlash(text, context, li) ==
    [value |-> Chars(text) # <<>> /\ Chars(text)[1] = "/",
     context |-> context, lastIndex |-> li]

\* TradingModule.canHandle: true at the first expression, of any command
\* type, that matches.  The context is not looked at.
tradingCanHandle(text, context, li) ==
    LET r == testAny(positionPatterns \o positionDetailPatterns \o tradingHelpPatterns,
                     li, Chars(text))
    IN [value |-> r.found, context |-> context, lastIndex |-> r.lastIndex]

\* TradingModule.detectCommand: the command type of the first expression
\* that text.match finds; match on an expression that is not global starts
\* at index 0 and leaves lastIndex alone.
detectCommand(text) ==
    LET matches(res) == testAny(res, <<>>, Chars(text)).found
    IN IF matches(positionPatterns) THEN "position"
       ELSE IF matches(positionDetailPatterns) THEN "positionDetail"
       ELSE IF matches(tradingHelpPatterns) THEN "help"
       ELSE "null"

\* TradingModule.handle.  The id handed to PositionCommand as userId is
\* context.chatId; every position-detail expression captures a coin.
\* wallet is what PositionCommand gets from getUserWallet for that id
\* ("none" when the command does not look one up).
tradingHandle(text, context, usrs, env, ext) ==
    LET chatId == context.chatId
        command == detectCommand(text)
        response ==
            CASE command = "null" -> notRecognizedMessage
              [] command = "position" -> execute(usrs, env, chatId, ext)
              [] command = "positionDetail" -> executeDetailed(usrs, env, chatId, ext)
              [] command = "help" -> tradingHelpMessage
    IN [response |-> response, history |-> context.history, messages |-> <<>>,
        wallet |-> IF command \in {"position", "positionDetail"}
                   THEN getUserWallet(usrs, env, chatId) ELSE "none"]

\* ---------------------------------------------------------- Help module
helpPatterns ==
    << [id |-> "helpPatterns[0]", flags |-> {"i"}, anchored |-> TRUE,
        toks |-> <<[kind |-> "lit", chars |-> <<"/", "h", "e", "l", "p">>],
                  [kind |-> "$"]>>],
       [id |-> "helpPatterns[1]", flags |-> {"i"}, anchored |-> TRUE,
        toks |-> <<[kind |-> "lit", chars |-> <<"/", "s", "t", "a", "r", "t">>],
                  [kind |-> "$"]>>],
       [id |-> "helpPatterns[2]", flags |-> {"i"}, anchored |-> TRUE,
        toks |-> <<[kind |-> "lit", chars |-> <<"h", "e", "l", "p">>],
                  [kind |-> "$"]>>],
       [id |-> "helpPatterns[3]", flags |-> {"i"}, anchored |-> FALSE,
        toks |-> <<[kind |-> "lit", chars |-> <<"w", "h", "a", "t", " ", "c", "a", "n", " ", "y", "o", "u", " ", "d", "o">>]>>],
       [id |-> "helpPatterns[4]", flags |-> {"i"}, anchored |-> FALSE,
        toks |-> <<[kind |-> "lit", chars |-> <<"h", "o", "w", " ", "d", "o", " ", "i">>]>>],
       [id |-> "helpPatterns[5]", flags |-> {"i"}, anchored |-> FALSE,
        toks |-> <<[kind |-> "lit", chars |-> <<"c", "o", "m", "m", "a", "n", "d", "s">>]>>] >>

helpMessage == "Telegram Bot Help. General Commands: /help, /trading-help. Available Commands: /position"

\* HelpModule.canHandle: the expressions are created anew by each call.
helpCanHandle(text, context, li) ==
    LET r == testAny(helpPatterns, <<>>, Chars(text))
    IN [value |-> r.found, context |-> context, lastIndex |-> li]

\* HelpModule.handle.
helpHandle(text, context) ==
    [response |-> helpMessage, history |-> context.history, messages |-> <<>>]

\* ------------------------------------------------------------ AI module
excludePatterns ==
    << [id |-> "excludePatterns[0]", flags |-> {}, anchored |-> TRUE,
        toks |-> <<[kind |-> "lit", chars |-> <<"/">>],
                  [kind |-> "w+"]>>],
       [id |-> "excludePatterns[1]", flags |-> {}, anchored |-> TRUE,
        toks |-> <<[kind |-> "lit", chars |-> <<"!">>]>>] >>

claudeText == "Bitcoin is a decentralized digital currency."
noResponseMessage == "No response generated"
aiConfigurationMessage == "AI service configuration error. Please contact support."
aiErrorMessage == "I encountered an error while processing your request. Please try again."

\* A faulty variant that declines every message.
aiDeclines(text, context, li) ==
    [value |-> FALSE, context |-> context, lastIndex |-> li]

\* AIModule.canHandle: everything but what an exclude pattern matches.
aiCanHandle(text, context, li) ==
    LET r == testAny(excludePatterns, li, Chars(text))
    IN [value |-> ~r.found, context |-> context, lastIndex |-> r.lastIndex]

\* AIModule.prepareMessages: the history without the user entries that
\* repeat the current text, then the current text unless it is already last.
prepareMessages(history, currentText) ==
    LET kept == SelectSeq(history,
                    LAMBDA msg : msg.content # currentText \/ msg.role # "user")
        messages == [j \in DOMAIN kept |->
                        [role |-> kept[j].role, content |-> kept[j].content]]
    IN IF messages = <<>> \/ messages[Len(messages)].content # currentText
       THEN Append(messages, [role |-> "user", content |-> currentText])
       ELSE messages

\* A faulty variant that pushes the current text onto context.history
\* instead of onto the message list.
aiHandlePushesHistory(text, context, ext) ==
    [response |-> IF ext = "data" THEN claudeText ELSE aiErrorMessage,
     history |-> Append(context.history, [role |-> "user", content |-> text,
                                          timestamp |-> "undefined"]),
     messages |-> <<>>]

\* AIModule.handle: the reply of the model, or the text that stands for a
\* failure; context.history is read, not written.
aiHandle(text, context, ext) ==
    [response |-> CASE ext = "data" -> claudeText
                    [] ext = "empty" -> noResponseMessage
                    [] ext = "keyError" -> aiConfigurationMessage
                    [] OTHER -> aiErrorMessage,
     history |-> context.history,
     messages |-> prepareMessages(context.history, text)]

\* ------------------------------------------- the router on shipped modules
canHandle(module, text, context, li) ==
    CASE module.name = "Trading" -> tradingCanHandle(text, context, li)
      [] module.name = "Help" -> helpCanHandle(text, context, li)
      [] module.name = "AI" -> aiCanHandle(text, context, li)

handle(module, text, context, usrs, env, ext) ==
    CASE module.name = "Trading" -> tradingHandle(text, context, usrs, env, ext)
      [] module.name = "Help" -> helpHandle(text, context)
      [] module.name = "AI" -> aiHandle(text, context, ext)

\* The module files readdir may list, in any order.
ShippedListings ==
    { fs \in [1..Cardinality(ShippedModules) -> ShippedModules] :
        \A a, b \in DOMAIN fs : a # b => fs[a] # fs[b] }

Environments == {"development", "production"}

\* A message sent once core.initialize() is over, each after the answer to
\* the one before.
ShippedCall(k, text) ==
    /\ loaded
    /\ SequentialCall(k, text)

\* The awaited canHandle of shipped module i settles.
ShippedCanHandleSettles(k) ==
    /\ calls[k].pc = "awaitCanHandle"
    /\ LET r == canHandle(modules[calls[k].i], calls[k].text,
                          contexts[calls[k].ctx], lastIndex)
       IN /\ CanHandleReturns(k, IF r.value THEN "true" ELSE "false")
          /\ lastIndex' = r.lastIndex

\* The awaited handle of shipped module i settles.
ShippedHandleSettles(k, ext) ==
    /\ calls[k].pc = "awaitHandle"
    /\ LET r == handle(modules[calls[k].i], calls[k].text,
                       contexts[calls[k].ctx], users, nodeEnv, ext)
       IN HandleReturns(k, "ok", r.response, r.history)

InitShipped ==
    /\ modules = <<>>
    /\ loaded = FALSE
    /\ contexts = << ContextOf(1, 1, <<>>) >>
    /\ held = << <<>> >>
    /\ conversationHistory = <<>>
    /\ calls = NoCalls
    /\ \E env \in Environments : FreshProcess(env)

NextShipped ==
    \/ \E files \in ShippedListings : Initialize(files)
    \/ \E k \in CallIds, text \in ShippedTexts : ShippedCall(k, text)
    \/ \E k \in CallIds : ShippedCanHandleSettles(k)
    \/ \E k \in CallIds, ext \in External : ShippedHandleSettles(k, ext)

SpecShipped == InitShipped /\ [][NextShipped]_vars

\* --- canHandle called directly, as a unit test does
\* module.canHandle(text, context) on a loaded module; a repeated call
\* passes the same text and the same context object.
Probe(j, text) ==
    /\ loaded
    /\ j \in DOMAIN modules
    /\ Len(probes) < MaxProbes
    /\ probes # <<>> => (probes[1].module = modules[j].name /\ probes[1].text = text)
    /\ LET r == canHandle(modules[j], text, contexts[1], lastIndex)
       IN /\ probes' = Append(probes,
                [module |-> modules[j].name, text |-> text, value |-> r.value,
                 before |-> contexts[1], after |-> r.context])
          /\ contexts' = [contexts EXCEPT ![1] = r.context]
          /\ lastIndex' = r.lastIndex
    /\ UNCHANGED <<modules, loaded, held, conversationHistory, calls>>
    /\ UNCHANGED <<hookCalls, cleaning, users, lastLinked, nodeEnv, globalLogger, logEntries>>

InitProbe ==
    /\ modules = <<>>
    /\ loaded = FALSE
    /\ \E n \in PreloadLengths :
          /\ contexts = << ContextOf(1, 1, Preload(n)) >>
          /\ held = << Preload(n) >>
    /\ conversationHistory = <<>>
    /\ calls = NoCalls
    /\ FreshProcess("test")

NextProbe ==
    \/ \E files \in ShippedListings : Initialize(files)
    \/ \E j \in 1..Cardinality(ShippedModules), text \in ShippedTexts : Probe(j, text)

SpecProbe == InitProbe /\ [][NextProbe]_vars

\* --- UserService called directly, as its unit tests do
\* `new Date()` never runs behind a date the service has already stored.
ClockReads(now) == \A u \in DOMAIN users : users[u].updatedAt <= now

LinkUserWallet(userId, walletAddress, now) ==
    /\ ClockReads(now)
    /\ users' = linkUserWallet(users, userId, walletAddress, now)
    /\ lastLinked' = [lastLinked EXCEPT ![userId] = walletAddress]
    /\ UNCHANGED <<modules, loaded, contexts, held, conversationHistory, calls>>
    /\ UNCHANGED <<hookCalls, cleaning, nodeEnv, globalLogger, logEntries, lastIndex, probes>>

UnlinkUserWallet(userId, now) ==
    /\ ClockReads(now)
    /\ users' = unlinkUserWallet(users, userId, now)
    /\ lastLinked' = [lastLinked EXCEPT ![userId] = "null"]
    /\ UNCHANGED <<modules, loaded, contexts, held, conversationHistory, calls>>
    /\ UNCHANGED <<hookCalls, cleaning, nodeEnv, globalLogger, logEntries, lastIndex, probes>>

UpdateUserPreferences(userId, preferences, now) ==
    /\ ClockReads(now)
    /\ users' = updateUserPreferences(users, userId, preferences, now)
    /\ UNCHANGED lastLinked
    /\ UNCHANGED <<modules, loaded, contexts, held, conversationHistory, calls>>
    /\ UNCHANGED <<hookCalls, cleaning, nodeEnv, globalLogger, logEntries, lastIndex, probes>>

DeleteUser(userId) ==
    /\ users' = deleteUser(users, userId)
    /\ lastLinked' = [lastLinked EXCEPT ![userId] = "null"]
    /\ UNCHANGED <<modules, loaded, contexts, held, conversationHistory, calls>>
    /\ UNCHANGED <<hookCalls, cleaning, nodeEnv, globalLogger, logEntries, lastIndex, probes>>

InitUsers ==
    /\ modules = <<>>
    /\ loaded = FALSE
    /\ contexts = << ContextOf(1, 1, <<>>) >>
    /\ held = << <<>> >>
    /\ conversationHistory = <<>>
    /\ calls = NoCalls
    /\ \E env \in Environments : FreshProcess(env)

NextUsers ==
    \/ \E u \in UserIds, w \in Wallets, now \in Clock : LinkUserWallet(u, w, now)
    \/ \E u \in UserIds, now \in Clock : UnlinkUserWallet(u, now)
    \/ \E u \in UserIds, p \in PreferenceUpdates, now \in Clock :
          UpdateUserPreferences(u, p, now)
    \/ \E u \in UserIds : DeleteUser(u)

SpecUsers == InitUsers /\ [][NextUsers]_vars

\* --- position requests in private chats and in a group
\* The id of a group chat: Telegram numbers groups below zero, and a private
\* chat by the id of the user.
GroupChatId == -100
PositionTexts == {"/position", "show eth position"}

\* A wallet linked before the messages arrive.
LinkBeforeMessages(userId, walletAddress) ==
    /\ ~loaded
    /\ LinkUserWallet(userId, walletAddress, 1)

InitWallets ==
    /\ modules = <<>>
    /\ loaded = FALSE
    /\ \E chatId \in {1, GroupChatId} : contexts = << ContextOf(chatId, 1, <<>>) >>
    /\ held = << <<>> >>
    /\ conversationHistory = <<>>
    /\ calls = NoCalls
    /\ \E env \in Environments : FreshProcess(env)

NextWallets ==
    \/ \E u \in UserIds, w \in Wallets : LinkBeforeMessages(u, w)
    \/ \E files \in ShippedListings : Initialize(files)
    \/ \E k \in CallIds, text \in PositionTexts : ShippedCall(k, text)
    \/ \E k \in CallIds : ShippedCanHandleSettles(k)
    \/ \E k \in CallIds : ShippedHandleSettles(k, "data")

SpecWallets == InitWallets /\ [][NextWallets]_vars

\* --- the legacy core (core.js): one function, one history array per chat
\* conversationHistory[chatId] of core.js is held as the history of the
\* context stored under chatId; a call is core(text, chatId).
LEGACY_HISTORY_LIMIT == 10
LegacyTexts == {"hello"}
CreateOutcomes == {"ok", "throwError"}

\* "Limit history to last 10 messages": one shift() when the array is longer.
legacyLimit(history) ==
    IF Len(history) > LEGACY_HISTORY_LIMIT THEN Tail(history) ELSE history

\* core(text, chatId) up to `await anthropic.messages.create`: the array of
\* the chat is looked up or created and the user message is pushed.
LegacyCore(k, chatId, text) ==
    /\ calls[k].pc \in {"idle", "done"}
    /\ LET got == getOrCreate(conversationHistory, contexts, chatId, 0)
       IN /\ Len(got.contexts[got.ctx].history) < MaxLegacyHistory
          /\ conversationHistory' = got.store
          /\ contexts' = [got.contexts EXCEPT ![got.ctx].history =
                             Append(@, [role |-> "user", content |-> text])]
          /\ calls' = [calls EXCEPT ![k] =
                          [IdleCall EXCEPT !.pc = "awaitCreate", !.via = "legacy",
                                           !.ctx = got.ctx, !.chatId = chatId,
                                           !.text = text]]
    /\ UNCHANGED <<modules, loaded, held, moduleVars>>

\* The awaited create settles: the answer is pushed and the array limited,
\* or the rejection leaves core() with the user message in the array.
LegacyCreateSettles(k, outcome) ==
    /\ calls[k].pc = "awaitCreate"
    /\ IF outcome = "ok"
       THEN /\ contexts' = [contexts EXCEPT ![calls[k].ctx].history =
                   legacyLimit(Append(@, [role |-> "assistant", content |-> claudeText]))]
            /\ calls' = [calls EXCEPT ![k] = Done("legacy", "response", 0)]
       ELSE /\ calls' = [calls EXCEPT ![k] = Done("legacy", "failed", 0)]
            /\ UNCHANGED contexts
    /\ UNCHANGED <<modules, loaded, held, conversationHistory, moduleVars>>

InitLegacy ==
    /\ modules = <<>>
    /\ loaded = FALSE
    /\ contexts = <<>>
    /\ held = <<>>
    /\ conversationHistory = <<>>
    /\ calls = NoCalls
    /\ FreshProcess("test")

NextLegacy ==
    \/ \E k \in CallIds, text \in LegacyTexts : LegacyCore(k, 1, text)
    \/ \E k \in CallIds, outcome \in CreateOutcomes : LegacyCreateSettles(k, outcome)

SpecLegacy == InitLegacy /\ [][NextLegacy]_vars

\* --- enhanced-logger: createLogger and the entries its loggers write
\* The users of two requests, and the correlation ids the requests carry.
UserContexts ==
    { [userId |-> "111", username |-> "alice"],
      [userId |-> "222", username |-> "bob"] }
CorrelationIds == {"req_a", "req_b"}

\* What createLogger may be called with: no argument, or an options object
\* in which correlationId and userContext may each be missing.
NoOptions == [given |-> FALSE, correlationId |-> "undefined", userContext |-> NoUserContext]
LoggerOptions ==
    {NoOptions} \cup
    [given : {TRUE}, correlationId : CorrelationIds \cup {"undefined"},
     userContext : UserContexts \cup {NoUserContext}]

\* The EnhancedLogger constructor: the fields an entry is built from.
EnhancedLogger(options) ==
    [correlationId |-> IF options.correlationId # "undefined"
                       THEN options.correlationId ELSE "randomUUID",
     userContext |-> options.userContext]

\* EnhancedLogger.child: the new logger takes the parent's userContext; of
\* the options only correlationId is read.
child(this, options) ==
    EnhancedLogger([given |-> TRUE,
                    correlationId |-> IF options.correlationId # "undefined"
                                      THEN options.correlationId ELSE this.correlationId,
                    userContext |-> this.userContext])

\* createLogger: the singleton is built from the options of the first call;
\* a call with options returns a child of the singleton.
createLogger(global, options) ==
    LET made == IF global.created THEN global
                ELSE [created |-> TRUE,
                      correlationId |-> EnhancedLogger(options).correlationId,
                      userContext |-> EnhancedLogger(options).userContext]
        this == [correlationId |-> made.correlationId, userContext |-> made.userContext]
    IN [globalLogger |-> made,
        logger |-> IF options.given THEN child(this, options) ELSE this]

\* `@${username}`.
atName(username) ==
    CASE username = "alice" -> "@alice"
      [] username = "bob" -> "@bob"
      [] OTHER -> "undefined"

\* EnhancedLogger.log: the identifying fields of the entry.
log(this) ==
    [correlationId |-> this.correlationId,
     userId |-> this.userContext.userId,
     username |-> atName(this.userContext.username)]

\* A request obtains its logger from createLogger and writes an entry.
CreateLoggerAndLog(options) ==
    /\ Len(logEntries) < MaxLogEntries
    /\ LET made == createLogger(globalLogger, options)
       IN /\ globalLogger' = made.globalLogger
          /\ logEntries' = Append(logEntries,
                                  [options |-> options, entry |-> log(made.logger)])
    /\ UNCHANGED <<modules, loaded, contexts, held, conversationHistory, calls>>
    /\ UNCHANGED <<hookCalls, cleaning, users, lastLinked, nodeEnv, lastIndex, probes>>

NextLogger == \E options \in LoggerOptions : CreateLoggerAndLog(options)

SpecLogger == Init /\ [][NextLogger]_vars

\* ------------------------------------------------------------- claims
Replies == { m.reply : m \in ModuleDoubles }
Returned(k) == calls[k].pc = "returned"
HistoryOf(k) == contexts[calls[k].ctx].history
Faults == {"throwError", "throwNullish"}

\* C1: modules registered through registerModule in any order are consulted
\* in ascending priority: whenever a call goes on to consult a module, no
\* module still ahead of it in the registry has a smaller priority value (so
\* of modules with priority 10, 20 and 50 that all match, the priority-10
\* module is the one asked and the one that answers).
C1_AscendingPriority ==
    [][\A k \in CallIds :
          (/\ calls'[k].pc = "awaitCanHandle"
           /\ (calls[k].pc # "awaitCanHandle" \/ calls[k].i # calls'[k].i))
          => \A j \in DOMAIN modules' :
                j > calls'[k].i => modules'[calls'[k].i].priority <= modules'[j].priority]_vars

\* C2: once a module's handle has returned successfully the call has
\* returned, with exactly that module's result, and no later module is
\* consulted.
C2_FirstSuccessReturns ==
    \A k \in CallIds :
        calls[k].last = "ok" =>
            /\ Returned(k)
            /\ calls[k].outcome = "dispatched"
            /\ calls[k].response = modules[calls[k].i].reply

\* C2 witness: a call answered by a module that has other modules behind it.
C2_Witness ==
    \E k \in CallIds :
        /\ Returned(k)
        /\ calls[k].outcome = "dispatched"
        /\ calls[k].i < Len(modules)

\* C3: a module whose canHandle or handle throws or rejects counts as having
\* declined: the scan goes on to the next module, or ends in the fallback
\* when the faulty module was the last one; the fault never ends dispatch.
C3_FaultContinues ==
    \A k \in CallIds :
        calls[k].last \in Faults =>
            \/ calls[k].pc = "awaitCanHandle"
            \/ Returned(k) /\ calls[k].outcome = "fallback"

\* C4: a call in which no module produced an answer returns the fixed
\* fallback string and leaves it in history as the assistant entry.
C4_FallbackWhenNoAnswer ==
    \A k \in CallIds :
        (Returned(k) /\ calls[k].outcome # "dispatched") =>
            /\ calls[k].response = fallbackMessage
            /\ HistoryOf(k) # <<>>
            /\ HistoryOf(k)[Len(HistoryOf(k))] = Entry("assistant", fallbackMessage)

\* C5: a call never raises to its caller; when it completes it has returned
\* a string, whatever the registry holds and whatever the modules do.
C5_NeverRaises ==
    \A k \in CallIds :
        /\ calls[k].pc \in {"idle", "awaitCanHandle", "awaitHandle", "returned", "retired"}
        /\ calls[k].pc \in {"awaitCanHandle", "awaitHandle"} => calls[k].i \in DOMAIN modules
        /\ Returned(k) => calls[k].response \in Replies \cup {fallbackMessage, errorMessage}

\* C5 witness: a call in which a module rejected with null/undefined has
\* returned.
C5_Witness ==
    \E k \in CallIds :
        /\ Returned(k)
        /\ calls[k].last = "throwNullish"

\* C7: a call that has returned appended exactly two entries, the user entry
\* with the inbound text and then the assistant entry with the returned
\* string, each with a timestamp.
C7_TurnRoundTrip ==
    \A k \in CallIds :
        Returned(k) =>
            LET h == held[calls[k].ctx]
            IN /\ Len(h) = 2 * Cardinality({j \in CallIds : calls[j].pc # "idle"})
               /\ h[Len(h) - 1] = Entry("user", calls[k].text)
               /\ h[Len(h)] = Entry("assistant", calls[k].response)
               /\ HistoryOf(k)[Len(HistoryOf(k))] = Entry("assistant", calls[k].response)

InFlight(k) == calls[k].pc \in {"awaitCanHandle", "awaitHandle"}

\* C6: once a call has touched a context, its history is exactly the last
\* min(MAX_HISTORY_LENGTH, n) of the n entries it held or was appended, in
\* their order, however long the history it was handed in with and however
\* the calls on it overlap.
C6_HistoryIsRecentSuffix ==
    ~NoCallStarted =>
        \A id \in DOMAIN contexts :
            LET h == contexts[id].history
                n == Len(held[id])
                m == IF n < MAX_HISTORY_LENGTH THEN n ELSE MAX_HISTORY_LENGTH
            IN /\ Len(h) = m
               /\ \A j \in 1..m : h[j] = held[id][n - m + j]

\* C6 witness: a call has returned on a context that held more entries than
\* the bound, while another call on it is still in flight.
C6_Witness ==
    \E k, j \in CallIds :
        /\ Returned(k)
        /\ InFlight(j)
        /\ Len(held[calls[k].ctx]) > MAX_HISTORY_LENGTH + 2
        /\ Len(HistoryOf(k)) = MAX_HISTORY_LENGTH

\* C8: per conversation id, at most one handleMessage call at a time is
\* between its user entry and its assistant entry.
C8_SerialisedPerConversation ==
    \A c \in Chats :
        Cardinality({k \in CallIds : InFlight(k) /\ calls[k].chatId = c}) <= 1

\* C9: the store holds one context per conversation id and never another:
\* every context ever created is the one stored under its own chat id, it
\* started empty (its first entry is the first message's user entry), and
\* every call of that conversation runs on it.
C9_OneContextPerConversation ==
    /\ Len(contexts) = Cardinality(DOMAIN conversationHistory)
    /\ \A c \in DOMAIN conversationHistory :
          /\ conversationHistory[c] \in DOMAIN contexts
          /\ contexts[conversationHistory[c]].chatId = c
          /\ held[conversationHistory[c]] # <<>>
          /\ held[conversationHistory[c]][1] = Entry("user", "hello")
    /\ \A k \in CallIds :
          (InFlight(k) \/ Returned(k)) =>
              /\ calls[k].chatId \in DOMAIN conversationHistory
              /\ calls[k].ctx = conversationHistory[calls[k].chatId]

\* C9 witness: a polling update and a webhook update of one conversation
\* are being handled on the same context.
C9_Witness ==
    \E k, j \in CallIds :
        /\ calls[k].via = "polling" /\ calls[j].via = "webhook"
        /\ InFlight(k) /\ InFlight(j)
        /\ calls[k].chatId = calls[j].chatId
        /\ calls[k].ctx = calls[j].ctx

\* C10: a step of a call for conversation c changes, or creates, only the
\* context of c; every other context is left as it was.
C10_OnlyOwnContext ==
    [][\A id \in DOMAIN contexts' :
          (id \notin DOMAIN contexts \/ contexts'[id] # contexts[id]) =>
              \E k \in CallIds :
                  /\ calls'[k] # calls[k]
                  /\ contexts'[id].chatId =
                        (IF calls[k].pc = "idle" THEN calls'[k].chatId ELSE calls[k].chatId)]_vars

\* C10 witness: calls of two conversations overlap, each with its own
\* context already written to.
C10_Witness ==
    \E k, j \in CallIds :
        /\ InFlight(k) /\ InFlight(j)
        /\ calls[k].chatId # calls[j].chatId
        /\ HistoryOf(k) # <<>> /\ HistoryOf(j) # <<>>
        /\ calls[k].ctx # calls[j].ctx

\* Where a module object sits in a registry that holds it.
Pos(mods, module) == CHOOSE j \in DOMAIN mods : mods[j] = module
Registered(mods) == { mods[j] : j \in DOMAIN mods }

\* C11: modules of equal priority are consulted in the order they were
\* registered: no step (a registerModule push, or the sort of loadModules)
\* moves a module in front of an equal-priority module registered before
\* it, a call visits the registry positions one after the other from the
\* first, and the module that answered "yes" is the one whose result is
\* returned.
C11_TiesInRegistrationOrder ==
    [][/\ \A a, b \in DOMAIN modules :
             (a < b /\ modules[a].priority = modules[b].priority) =>
                 /\ modules[a] \in Registered(modules')
                 /\ modules[b] \in Registered(modules')
                 /\ Pos(modules', modules[a]) < Pos(modules', modules[b])
       /\ \A a, b \in DOMAIN modules' :
             (/\ modules'[a] \in Registered(modules)
              /\ modules'[b] \notin Registered(modules)
              /\ modules'[a].priority = modules'[b].priority) => a < b
       /\ \A k \in CallIds :
             /\ (/\ calls'[k].pc = "awaitCanHandle"
                 /\ (calls[k].pc # "awaitCanHandle" \/ calls[k].i # calls'[k].i))
                => calls'[k].i = (IF calls[k].pc = "idle" THEN 1 ELSE calls[k].i + 1)
             /\ (calls[k].pc = "awaitHandle" /\ calls'[k].outcome = "dispatched")
                => /\ calls[k].last = "true"
                   /\ calls'[k].response = modules[calls[k].i].reply]_vars

\* C11 witness: after a load that sorted the registry, two modules of equal
\* priority stand first and second, and a call was answered by the first.
C11_Witness ==
    /\ loaded
    /\ Len(modules) >= 2
    /\ modules[1].priority = modules[2].priority
    /\ \E k \in CallIds :
          /\ Returned(k)
          /\ calls[k].outcome = "dispatched"
          /\ calls[k].i = 1

\* C12: the string a call returns is never the text of an error raised in
\* a module or in the router: a dispatched call returns the reply of the
\* module it stopped at, an exhausted scan the fixed fallback string, and a
\* call ended by the outer catch the fixed generic error string.
C12_NoErrorTextReturned ==
    \A k \in CallIds :
        Returned(k) =>
            /\ calls[k].response \notin {moduleErrorText, typeErrorText}
            /\ calls[k].outcome \in {"dispatched", "fallback", "error"}
            /\ calls[k].outcome = "dispatched" =>
                   calls[k].response = modules[calls[k].i].reply
            /\ calls[k].outcome = "fallback" => calls[k].response = fallbackMessage
            /\ calls[k].outcome = "error" => calls[k].response = errorMessage

\* C12 witness: a call whose last consulted module threw an Error object
\* has returned.
C12_Witness ==
    \E k \in CallIds :
        /\ Returned(k)
        /\ calls[k].last = "throwError"
        /\ calls[k].i > Len(modules)

DispatchedBy(k, name) ==
    /\ Returned(k)
    /\ calls[k].outcome = "dispatched"
    /\ modules[calls[k].i].name = name

\* Neither Trading nor Help matches the text.
NeitherMatches(text) ==
    /\ ~tradingCanHandle(text, contexts[1], lastIndex).value
    /\ ~helpCanHandle(text, contexts[1], lastIndex).value

\* Text that starts like a command: "/" and a word character, or "!".
CommandLike(text) == testAny(excludePatterns, <<>>, Chars(text)).found

C14_LinkWalletLinks ==
    \A k \in CallIds :
        LET c == calls[k].ctx
        IN /\ (Returned(k) /\ calls[k].text = "/linkwallet 0xabc") =>
                 /\ DispatchedBy(k, "Trading")
                 /\ contexts[c].userId \in DOMAIN users
                 /\ users[contexts[c].userId].walletAddress = "0xabc"
           /\ (/\ Returned(k)
               /\ calls[k].text = "/position"
               /\ nodeEnv # "development"
               /\ \E j \in 1..(Len(held[c]) - 2) :
                     held[c][j] = Entry("user", "/linkwallet 0xabc"))
              => calls[k].response # noWalletMessage

IsNumber(v) == v \in Int

\* C15: registerModule turns away a module whose name is already in the
\* registry and a module whose priority is not a number: the registry
\* never holds two modules of one name, nor a priority that is not a
\* number.
C15_RegistryWellFormed ==
    /\ \A a, b \in DOMAIN modules : a # b => modules[a].name # modules[b].name
    /\ \A a \in DOMAIN modules : IsNumber(modules[a].priority)

\* How often a hook of the module of that name has been called.
HookCount(hook, name) ==
    Cardinality({ j \in DOMAIN hookCalls :
                    hookCalls[j] = [hook |-> hook, module |-> name] })

\* C16: once the modules are loaded, initialize() has been called exactly
\* once on each of them, and so it has on any module a call is passing the
\* message to.
C16_InitializeOnceBeforeTraffic ==
    /\ loaded => \A j \in DOMAIN modules :
                    HookCount("initialize", modules[j].name) = 1
    /\ \A k \in CallIds :
          InFlight(k) => HookCount("initialize", modules[calls[k].i].name) = 1

\* C17: Core.cleanup() never fails, whatever the modules' cleanup() calls
\* settle to, and at the step in which it completes the registry becomes
\* empty and every module that was registered and has a cleanup method has
\* had it called.
C17_CleanupReachesEveryModule ==
    [][\A c \in CleanupCalls :
          /\ cleaning'[c].pc \in {"idle", "awaitCleanup", "done"}
          /\ (cleaning[c].pc # "done" /\ cleaning'[c].pc = "done") =>
                /\ modules' = <<>>
                /\ \A j \in DOMAIN modules :
                      definesCleanup(modules[j]) =>
                          \E h \in DOMAIN hookCalls' :
                              hookCalls'[h] = [hook |-> "cleanup", module |-> modules[j].name]]_vars

\* C17 witness: cleanup has completed although the cleanup() of the first
\* module called was rejected with null/undefined or threw, and another
\* module's cleanup() was called after it.
C17_Witness ==
    /\ cleaning[1].pc = "done"
    /\ modules = <<>>
    /\ Len(hookCalls) >= 2
    /\ cleaning[1].logged # <<>>
    /\ cleaning[1].logged[1] = hookCalls[1].module

\* C18: a call that has returned ended in one of two ways: dispatched (the
\* result of the module it stopped at is returned) or exhausted (the scan
\* ran past the last module and the fallback is returned).
C18_EndsDispatchedOrExhausted ==
    \A k \in CallIds :
        Returned(k) =>
            \/ calls[k].outcome = "dispatched" /\ calls[k].last = "ok"
            \/ calls[k].outcome = "fallback" /\ calls[k].response = fallbackMessage

\* C19: canHandle of Trading, Help and AI, called again with the same text
\* and context, returns the boolean it returned before, and no call changes
\* the context or its history.
C19_CanHandleRepeatable ==
    /\ \A a, b \in DOMAIN probes :
          (probes[a].module = probes[b].module /\ probes[a].text = probes[b].text)
             => probes[a].value = probes[b].value
    /\ \A a \in DOMAIN probes :
          /\ probes[a].after = probes[a].before
          /\ probes[a].after = contexts[1]
          /\ contexts[1].history = held[1]

\* C19 witness: a module has been asked twice about a text it accepts, on
\* a context that holds history.
C19_Witness ==
    /\ Len(probes) >= 2
    /\ probes[1].value
    /\ probes[2].value
    /\ contexts[1].history # <<>>

\* C20: in every step of a call on the shipped modules, the history of its
\* context changes only by the router's own append: the user entry when the
\* call starts, the assistant entry with the returned string when it
\* returns, each followed by the truncation; while the call waits for a
\* module, and when a module's handle has run, nothing else has changed.
C20_OnlyRouterWritesHistory ==
    [][\A k \in CallIds :
          (calls'[k] # calls[k] /\ calls'[k].pc # "retired") =>
              LET c == calls'[k].ctx
                  before == contexts[c].history
                  after == contexts'[c].history
              IN /\ calls[k].pc = "idle" =>
                       after = addToHistory(before, "user", calls'[k].text)
                 /\ (calls[k].pc # "idle" /\ calls'[k].pc = "returned") =>
                       after = addToHistory(before, "assistant", calls'[k].response)
                 /\ (calls[k].pc # "idle" /\ calls'[k].pc # "returned") =>
                       after = before]_vars

\* C20 witness: the AI module has answered a call on a context that
\* already holds an answer of Trading or of Help.
C20_Witness ==
    \E k \in CallIds :
        /\ DispatchedBy(k, "AI")
        /\ \E a \in 1..(Len(held[1]) - 2) :
              /\ held[1][a].role = "assistant"
              /\ held[1][a].content \in {helpMessage, positionsMessage,
                                          noPositionsMessage, noWalletMessage}

\* C21: outside development mode getUserWallet(u) is, for every user, the
\* address of the last linkUserWallet(u, w) call that no unlinkUserWallet(u)
\* or deleteUser(u) followed, and null when there is none: for a user never
\* linked, unlinked or deleted, whatever was done to other users.
C21_WalletFollowsLink ==
    nodeEnv # "development" =>
       \A u \in UserIds : getUserWallet(users, nodeEnv, u) = lastLinked[u]

\* User 1 was linked, and later linked again to the second address, while
\* user 2 was linked and then unlinked.
C21_Witness ==
    /\ nodeEnv = "production"
    /\ DOMAIN users = {1, 2}
    /\ users[1].walletAddress = "0xnewwallet999"
    /\ users[1].preferences = NoPreferences
    /\ users[1].createdAt < users[1].updatedAt
    /\ users[2].walletAddress = "undefined"
    /\ users[2].preferences = NoPreferences
    /\ lastLinked[1] = "0xnewwallet999"
    /\ lastLinked[2] = "null"

\* C22: linkUserWallet on a stored user keeps the preferences,
\* updateUserPreferences keeps the wallet and stores the old preferences
\* overlaid with the new keys, and unlinkUserWallet on a stored user keeps
\* the record, its preferences and its creation date and clears the wallet.
C22_FieldsKept ==
    [][\A u \in DOMAIN users' :
          LET now == users'[u].updatedAt
              stored == u \in DOMAIN users
          IN (~stored \/ users'[u] # users[u]) =>
             /\ (stored /\ \E w \in Wallets : users' = linkUserWallet(users, u, w, now)) =>
                   /\ users'[u].preferences = users[u].preferences
                   /\ users'[u].createdAt = users[u].createdAt
             /\ \A p \in PreferenceUpdates :
                   users' = updateUserPreferences(users, u, p, now) =>
                      /\ stored => users'[u].walletAddress = users[u].walletAddress
                      /\ \A key \in PrefKeys :
                            users'[u].preferences[key] =
                               IF p[key] # "undefined" THEN p[key]
                               ELSE IF stored THEN users[u].preferences[key]
                               ELSE "undefined"
             /\ (stored /\ users' = unlinkUserWallet(users, u, now)) =>
                   /\ users'[u].walletAddress = "undefined"
                   /\ users'[u].preferences = users[u].preferences
                   /\ users'[u].createdAt = users[u].createdAt
      ]_users

\* A user whose preferences were set in two updates, linked and unlinked
\* again: both keys are still there.
C22_Witness ==
    /\ 1 \in DOMAIN users
    /\ users[1].preferences = [theme |-> "dark", notifications |-> "on"]
    /\ users[1].walletAddress = "undefined"
    /\ users[1].createdAt < users[1].updatedAt
    /\ 2 \in DOMAIN users
    /\ users[2].preferences = [theme |-> "light", notifications |-> "undefined"]
    /\ users[2].walletAddress = "0xtest123456789"

\* The message list AIModule.handle hands to the AI collaborator for call k,
\* built from the history the call finds when handle runs.
MessagesOf(k) == prepareMessages(HistoryOf(k), calls[k].text)

\* C23: whenever a call waits for the AI module's handle, the message list
\* built for it begins with a user message, alternates user and assistant
\* roles, and ends with the current text as a user message.
C23_MessagesAlternate ==
    \A k \in CallIds :
        (calls[k].pc = "awaitHandle" /\ modules[calls[k].i].name = "AI") =>
           LET messages == MessagesOf(k)
           IN /\ messages[1].role = "user"
              /\ \A j \in 1..(Len(messages) - 1) :
                    messages[j].role # messages[j + 1].role
              /\ messages[Len(messages)] =
                    [role |-> "user", content |-> calls[k].text]

\* C24: when a call made after the answer to the one before has returned,
\* the history of its context begins with a user entry, alternates user and
\* assistant entries, and ends with the call's own user entry followed by
\* the assistant entry that holds its response.
C24_HistoryAlternates ==
    \A k \in CallIds :
        Returned(k) =>
           LET history == HistoryOf(k)
               n == Len(history)
           IN /\ n >= 2
              /\ history[1].role = "user"
              /\ \A j \in 1..(n - 1) : history[j].role # history[j + 1].role
              /\ history[n - 1].role = "user"
              /\ history[n - 1].content = calls[k].text
              /\ history[n].role = "assistant"
              /\ history[n].content = calls[k].response

\* C25: in a process that is shutting down no module's cleanup() has been
\* called more than once, also when the handler of a second signal calls
\* core.cleanup() while the first call still awaits a module's cleanup().
C25_CleanupAtMostOnce ==
    \A j \in DOMAIN modules : HookCount("cleanup", modules[j].name) <= 1

\* C26: for the text of every call under way or returned,
\* TradingModule.canHandle is true exactly when detectCommand finds a
\* command, and canHandle leaves no match position behind in any
\* expression; so a call the Trading module answered was never answered
\* with "Trading command not recognized".
C26_CanHandleIffDetected ==
    \A k \in CallIds :
        /\ calls[k].pc \notin {"idle", "retired"} =>
              LET r == tradingCanHandle(calls[k].text, contexts[calls[k].ctx], lastIndex)
              IN /\ r.value <=> detectCommand(calls[k].text) # "null"
                 /\ r.lastIndex = <<>>
        /\ DispatchedBy(k, "Trading") => calls[k].response # notRecognizedMessage

\* "show eth position" is matched by a position-detail expression and
\* "trading commands" by a help expression; both were answered by the
\* Trading module, one call after the other.
C26_Witness ==
    \E k \in CallIds :
        /\ DispatchedBy(k, "Trading")
        /\ calls[k].text = "trading commands"
        /\ calls[k].response = tradingHelpMessage
        /\ \E j \in DOMAIN held[1] :
              /\ held[1][j] = Entry("user", "show eth position")
              /\ held[1][j + 1].role = "assistant"
              /\ held[1][j + 1].content \in
                    {positionDetailsMessage, noPositionForCoinMessage,
                     detailsFailedMessage, noWalletDetailMessage}

\* C27: when a call waits for the Trading module to handle a position
\* request, the wallet the module looks up is the wallet linked to
\* context.userId, in a private chat and in a group chat alike.
C27_WalletOfSender ==
    \A k \in CallIds :
        (calls[k].pc = "awaitHandle" /\ modules[calls[k].i].name = "Trading") =>
           LET context == contexts[calls[k].ctx]
               r == tradingHandle(calls[k].text, context, users, nodeEnv, "data")
           IN r.wallet \in {"none", getUserWallet(users, nodeEnv, context.userId)}

\* C28: a webhook request is answered when its handler ends and not
\* before, and the answer is 200: for an update without text or sender,
\* for a message processed and sent, and when the call returned the error
\* string or sendMessage failed.  A handler that has ended never runs
\* again, so the request gets one response.
C28_WebhookAnswers200 ==
    \A k \in CallIds :
        calls[k].via = "webhook" =>
           /\ calls[k].pc = "done" => calls[k].http = 200
           /\ calls[k].pc # "done" => calls[k].http = 0

\* One request whose sendMessage failed and one whose update had no text
\* or sender: both answered.
C28_Witness ==
    \E k, j \in CallIds :
        /\ calls[k] = Done("webhook", "failed", 200)
        /\ calls[j] = Done("webhook", "none", 200)

\* C29: in the legacy core, whenever no call on a chat is under way the
\* array stored for the chat holds at most 10 messages.
C29_LegacyHistoryBounded ==
    \A chatId \in DOMAIN conversationHistory :
        (\A k \in CallIds : calls[k].pc # "awaitCreate") =>
           Len(contexts[conversationHistory[chatId]].history) <= LEGACY_HISTORY_LIMIT

\* C30: every entry written by a logger that createLogger returned for
\* options with a userContext carries the userId and the username of that
\* userContext, whichever call of createLogger it was.
C30_EntriesTaggedWithOwnUser ==
    \A j \in DOMAIN logEntries :
        LET options == logEntries[j].options
        IN (options.given /\ options.userContext # NoUserContext) =>
              /\ logEntries[j].entry.userId = options.userContext.userId
              /\ logEntries[j].entry.username = atName(options.userContext.username)

====
